---- MODULE Spec2Model ----
(***************************************************************************)
(* A model of python_server/server.py: a Unix-socket command server with   *)
(* one handler thread per connection, newline-delimited JSON frames, a     *)
(* fixed command registry and a process-wide dict `storage`.               *)
(*                                                                         *)
(* Wire units.  A byte stream is a sequence of wire units (strings), each   *)
(* an indivisible run of bytes:                                            *)
(*   "\n"  the newline delimiter        " "   a whitespace byte            *)
(*   a request token (see Table): the text of one JSON object              *)
(*   "[]"  the text of a JSON value that is not an object                  *)
(*   "[[["  a run of opening brackets, never closed, longer than the       *)
(*         interpreter's recursion limit                                   *)
(*   "x"   an ASCII byte that starts no JSON value                         *)
(*   "C3" "A9" the two bytes of the UTF-8 encoding of U+00E9               *)
(* Text is a sequence of characters: the same units, with "C3","A9"        *)
(* decoded to the single character "E9".                                   *)
(*                                                                         *)
(* Threads interleave only at accesses to shared state, so a handler       *)
(* thread's step runs from one access of `storage` (or one socket call)    *)
(* to the next.  Timestamps and message strings of the envelopes are left  *)
(* out: no branch of the code reads them.                                  *)
(***************************************************************************)
EXTENDS Integers, Sequences, FiniteSets, TLC

\* Bounds of the model.
NConn == 2
MaxSend == 3

\* Program constants.
MAX_MESSAGE_SIZE == 4096
LISTEN_BACKLOG == 5

Conns == 1..NConn

NL == "\n"
SP == " "

\* A JSON member that is missing, and JSON null / Python None.
Absent == "<absent>"
None == "<None>"

Min(a, b) == IF a < b THEN a ELSE b

(***************************************************************************)
(* Python dict (insertion ordered): a sequence of [k, v] entries.          *)
(***************************************************************************)
DictHas(d, k) == \E i \in 1..Len(d) : d[i].k = k

DictGet(d, k) == d[CHOOSE i \in 1..Len(d) : d[i].k = k].v

\* A faulty variant of DictSet: storage = {key: value}, which forgets every
\* other entry.
DictOnly(d, k, v) == <<[k |-> k, v |-> v]>>

\* A faulty variant of DictSet: dict.setdefault, which keeps an old value.
DictSetDefault(d, k, v) ==
    IF DictHas(d, k) THEN d ELSE Append(d, [k |-> k, v |-> v])

DictSet(d, k, v) ==
    IF DictHas(d, k)
    THEN [i \in 1..Len(d) |-> IF d[i].k = k THEN [k |-> k, v |-> v] ELSE d[i]]
    ELSE Append(d, [k |-> k, v |-> v])

DictDel(d, k) == SelectSeq(d, LAMBDA e : e.k # k)

DictKeys(d) == [i \in 1..Len(d) |-> d[i].k]

DictLen(d) == Len(d)

(***************************************************************************)
(* bytes.decode('utf-8') of one received chunk.                            *)
(***************************************************************************)
RECURSIVE Utf8Chars(_)
Utf8Chars(bs) ==
    IF bs = <<>> THEN <<>>
    ELSE IF Head(bs) = "C3"
         THEN IF Len(bs) >= 2 /\ bs[2] = "A9"
              THEN <<"E9">> \o Utf8Chars(SubSeq(bs, 3, Len(bs)))
              ELSE <<"UnicodeDecodeError">>
         ELSE IF Head(bs) = "A9"
              THEN <<"UnicodeDecodeError">>
              ELSE <<Head(bs)>> \o Utf8Chars(Tail(bs))

DecodeFails(bs) ==
    LET t == Utf8Chars(bs) IN \E i \in 1..Len(t) : t[i] = "UnicodeDecodeError"

decode(bs) == Utf8Chars(bs)

(***************************************************************************)
(* str helpers of handle_client's framing loop.                            *)
(***************************************************************************)
HasNewline(buf) == \E i \in 1..Len(buf) : buf[i] = NL

\* buffer.split('\n', 1): the text before the first newline, and the rest.
FirstNewline(buf) == CHOOSE i \in 1..Len(buf) :
                        buf[i] = NL /\ \A j \in 1..(i - 1) : buf[j] # NL

\* A faulty variant of split: buffer.rsplit('\n', 1), which cuts at the last
\* newline.
rsplit(buf) ==
    LET i == CHOOSE i \in 1..Len(buf) :
                buf[i] = NL /\ \A j \in (i + 1)..Len(buf) : buf[j] # NL
    IN  <<SubSeq(buf, 1, i - 1), SubSeq(buf, i + 1, Len(buf))>>

split(buf) ==
    LET i == FirstNewline(buf)
    IN  <<SubSeq(buf, 1, i - 1), SubSeq(buf, i + 1, Len(buf))>>

RECURSIVE lstrip(_)
lstrip(s) == IF s # <<>> /\ Head(s) = SP THEN lstrip(Tail(s)) ELSE s

RECURSIVE rstrip(_)
rstrip(s) ==
    IF s # <<>> /\ s[Len(s)] = SP THEN rstrip(SubSeq(s, 1, Len(s) - 1)) ELSE s

\* A faulty variant of strip: the frame as it was cut, untrimmed.
nostrip(s) == s

strip(s) == rstrip(lstrip(s))

(***************************************************************************)
(* JSON.  A decoded object is a record [command, request_id, data]; a      *)
(* member that is missing is Absent, JSON null is None.  `data` is         *)
(* [t, key, value, message, operation, a, b] with t one of "absent",       *)
(* "null", "object".  The operands a and b of calculate are JSON values    *)
(* [j, n, s]: j is "absent", "null", "int" (the integer n), "bigint" (an   *)
(* integer literal of 400 digits, beyond the range of a double) or "str"   *)
(* (the string s).                                                         *)
(***************************************************************************)
JAbsent == [j |-> "absent", n |-> 0, s |-> ""]

JNull == [j |-> "null", n |-> 0, s |-> ""]

JInt(n) == [j |-> "int", n |-> n, s |-> ""]

JBigInt == [j |-> "bigint", n |-> 0, s |-> ""]

JStr(s) == [j |-> "str", n |-> 0, s |-> s]

NoMembers ==
    [t |-> "object", key |-> Absent, value |-> Absent, message |-> Absent,
     operation |-> Absent, a |-> JAbsent, b |-> JAbsent]

DataAbsent == [NoMembers EXCEPT !.t = "absent"]

DataNull == [NoMembers EXCEPT !.t = "null"]

Data(key, value) == [NoMembers EXCEPT !.key = key, !.value = value]

Calc(operation, a, b) ==
    [NoMembers EXCEPT !.operation = operation, !.a = a, !.b = b]

Msg(command, request_id, data) ==
    [command |-> command, request_id |-> request_id, data |-> data]

\* The request tokens of the wire and the object each one spells.
Table ==
    { <<"{}",             Msg(Absent, Absent, DataAbsent)>>,
      <<"store k1 v1",    Msg("store", Absent, Data("k1", "v1"))>>,
      <<"store k1 null",  Msg("store", Absent, Data("k1", None))>>,
      <<"store k2",       Msg("store", Absent, Data("k2", Absent))>>,
      <<"store nokey",    Msg("store", Absent, Data(Absent, "v1"))>>,
      <<"retrieve k1",    Msg("retrieve", Absent, Data("k1", Absent))>>,
      <<"delete k1",      Msg("delete", Absent, Data("k1", Absent))>>,
      <<"list_keys",      Msg("list_keys", Absent, DataAbsent)>>,
      <<"ping",           Msg("ping", Absent, DataAbsent)>>,
      <<"ping #",         Msg("ping", "", DataAbsent)>>,
      <<"ping #r1",       Msg("ping", "r1", DataAbsent)>>,
      <<"list_keys #r1",  Msg("list_keys", "r1", DataAbsent)>>,
      <<"#r1",            Msg(Absent, "r1", DataAbsent)>>,
      <<"empty #r1",      Msg("", "r1", DataAbsent)>>,
      <<"empty",          Msg("", Absent, DataAbsent)>>,
      <<"nope",           Msg("nope", Absent, DataAbsent)>>,
      <<"nope #r1",       Msg("nope", "r1", DataAbsent)>>,
      <<"echo hi #r1",    Msg("echo", "r1", [NoMembers EXCEPT !.message = "hi"])>>,
      <<"echo #r1",       Msg("echo", "r1", NoMembers)>>,
      <<"retrieve k1 #r1", Msg("retrieve", "r1", Data("k1", Absent))>>,
      <<"store null #r1", Msg("store", "r1", DataNull)>>,
      <<"time",           Msg("time", Absent, DataAbsent)>>,
      <<"help",           Msg("help", Absent, DataAbsent)>>,
      <<"calc add 2 3",      Msg("calculate", Absent, Calc("add", JInt(2), JInt(3)))>>,
      <<"calc add '2' 3",    Msg("calculate", Absent, Calc("add", JStr("2"), JInt(3)))>>,
      <<"calc add x 3",      Msg("calculate", Absent, Calc("add", JStr("x"), JInt(3)))>>,
      <<"calc add 2",        Msg("calculate", Absent, Calc("add", JInt(2), JAbsent))>>,
      <<"calc add null 3",   Msg("calculate", Absent, Calc("add", JNull, JInt(3)))>>,
      <<"calc root 2 3",     Msg("calculate", Absent, Calc("root", JInt(2), JInt(3)))>>,
      <<"calc subtract 2 3", Msg("calculate", Absent, Calc("subtract", JInt(2), JInt(3)))>>,
      <<"calc multiply 2 3", Msg("calculate", Absent, Calc("multiply", JInt(2), JInt(3)))>>,
      <<"calc divide 6 4",   Msg("calculate", Absent, Calc("divide", JInt(6), JInt(4)))>>,
      <<"calc divide 3 0",   Msg("calculate", Absent, Calc("divide", JInt(3), JInt(0)))>>,
      <<"calc divide 0 0",   Msg("calculate", Absent, Calc("divide", JInt(0), JInt(0)))>>,
      <<"calc divide '3' '0'", Msg("calculate", Absent, Calc("divide", JStr("3"), JStr("0")))>>,
      <<"calc divide big 0", Msg("calculate", Absent, Calc("divide", JBigInt, JInt(0)))>>,
      <<"calc modulo 7 -3",  Msg("calculate", Absent, Calc("modulo", JInt(7), JInt(-3)))>>,
      <<"calc modulo -1 0",  Msg("calculate", Absent, Calc("modulo", JInt(-1), JInt(0)))>>,
      <<"calc modulo 3 '0'", Msg("calculate", Absent, Calc("modulo", JInt(3), JStr("0")))>>,
      <<"calc power 2 3",    Msg("calculate", Absent, Calc("power", JInt(2), JInt(3)))>>,
      <<"calc power 2 -1",   Msg("calculate", Absent, Calc("power", JInt(2), JInt(-1)))>>,
      <<"calc power 0 -1",   Msg("calculate", Absent, Calc("power", JInt(0), JInt(-1)))>>,
      <<"calc power 2 1024", Msg("calculate", Absent, Calc("power", JInt(2), JInt(1024)))>> }

Tokens == { e[1] : e \in Table }

Members(tok) == (CHOOSE e \in Table : e[1] = tok)[2]

(***************************************************************************)
(* json.loads(line): a JSON object, another JSON value, or an exception:  *)
(* JSONDecodeError (two values on one line are "Extra data"), or           *)
(* RecursionError when the scanner nests deeper than the recursion limit   *)
(* before it meets the error.                                              *)
(***************************************************************************)
json_loads(line) ==
    IF Len(line) = 1 /\ line[1] \in Tokens
    THEN [kind |-> "object", msg |-> Members(line[1])]
    ELSE IF line = <<"[]">>
    THEN [kind |-> "value", msg |-> Msg(Absent, Absent, DataAbsent)]
    ELSE IF line[1] = "[[["
    THEN [kind |-> "RecursionError", msg |-> Msg(Absent, Absent, DataAbsent)]
    ELSE [kind |-> "JSONDecodeError", msg |-> Msg(Absent, Absent, DataAbsent)]

\* dict.get(name) of a decoded member: None when the member is missing.
get(member) == IF member = Absent THEN None ELSE member

\* Python truth of a str-or-None value.
Truthy(x) == x # None /\ x # ""

(***************************************************************************)
(* Envelopes.  A payload is a record of one shape; `kind` says which       *)
(* handler built it.  Python exceptions are records [exc, code].           *)
(***************************************************************************)
NoNumber == [n |-> 0, d |-> 0]

NoPayload ==
    [kind |-> "none", key |-> Absent, value |-> Absent, keys |-> <<>>,
     count |-> -1, text |-> Absent, a |-> NoNumber, b |-> NoNumber,
     result |-> NoNumber]

NoError == [exc |-> "none", code |-> ""]

ServerError(code) == [exc |-> "ServerError", code |-> code]

Exception(name) == [exc |-> name, code |-> ""]

\* create_response: request_id is kept only when it is truthy; data only on
\* success, the error only on failure.
create_response(request_id, success, data, error) ==
    [type       |-> "response",
     success    |-> success,
     request_id |-> IF Truthy(request_id) THEN request_id ELSE Absent,
     data       |-> IF success /\ data.kind # "none" THEN data ELSE NoPayload,
     error      |-> IF ~success /\ error # "" THEN error ELSE Absent]

create_error_response(request_id, error_code) ==
    create_response(request_id, FALSE, NoPayload, error_code)

\* The registry, in the order the dict literal lists it.
COMMAND_HANDLERS ==
    <<"echo", "time", "calculate", "store", "retrieve", "list_keys", "delete",
      "ping", "help">>

Registered(command) ==
    \E i \in 1..Len(COMMAND_HANDLERS) : COMMAND_HANDLERS[i] = command

(***************************************************************************)
(* Handlers.  A handler's run up to its next access of `storage` gives     *)
(*   [status, data, err, st, keys]                                         *)
(* status "return" (data), "raise" (err) or "continue" (a second access    *)
(* of storage is still to come); st is storage after the step, keys the    *)
(* list a list_keys has already built.                                     *)
(***************************************************************************)
Return(data, st) ==
    [status |-> "return", data |-> data, err |-> NoError, st |-> st, keys |-> <<>>]

Raise(err, st) ==
    [status |-> "raise", data |-> NoPayload, err |-> err, st |-> st, keys |-> <<>>]

Continue(st, keys) ==
    [status |-> "continue", data |-> NoPayload, err |-> NoError, st |-> st,
     keys |-> keys]

\* command_data.get(...) on a command_data that is None.
NotADict(command_data) == command_data.t = "null"

handle_echo(command_data, st) ==
    IF NotADict(command_data) THEN Raise(Exception("AttributeError"), st)
    ELSE IF command_data.message = Absent \/ ~Truthy(command_data.message)
    THEN Raise(ServerError("INVALID_INPUT"), st)
    ELSE Return([NoPayload EXCEPT !.kind = "echo", !.text = command_data.message], st)

handle_time(command_data, st) == Return([NoPayload EXCEPT !.kind = "time"], st)

(***************************************************************************)
(* handle_calculate.  A float is a rational [n, d] in lowest terms with    *)
(* d > 0; the operands are integers, which a double holds exactly.         *)
(***************************************************************************)
Abs(x) == IF x < 0 THEN -x ELSE x

RECURSIVE Gcd(_, _)
Gcd(x, y) == IF y = 0 THEN x ELSE Gcd(y, x % y)

\* The float n/d (d # 0).
Rat(n, d) ==
    LET g == Gcd(Abs(n), Abs(d))
        sign == IF d < 0 THEN -1 ELSE 1
    IN  [n |-> sign * (n \div g), d |-> sign * (d \div g)]

\* float(x): a value [exc, f], exc "none" when the conversion succeeds.
DigitStrings == <<"0", "1", "2", "3", "4", "5", "6", "7", "8", "9">>

float(x) ==
    CASE x.j = "int"    -> [exc |-> "none", f |-> x.n]
      [] x.j = "bigint" -> [exc |-> "OverflowError", f |-> 0]
      [] x.j = "str"    ->
            IF \E i \in 1..Len(DigitStrings) : DigitStrings[i] = x.s
            THEN [exc |-> "none",
                  f |-> (CHOOSE i \in 1..Len(DigitStrings) : DigitStrings[i] = x.s) - 1]
            ELSE [exc |-> "ValueError", f |-> 0]
      [] OTHER          -> [exc |-> "TypeError", f |-> 0]

RECURSIVE Log2Floor(_)
Log2Floor(n) == IF n < 2 THEN 0 ELSE 1 + Log2Floor(n \div 2)

RECURSIVE IntPow(_, _)
IntPow(x, y) == IF y = 0 THEN 1 ELSE x * IntPow(x, y - 1)

\* x ** y of two floats: [exc, r].  A result of 2^1024 or more is out of the
\* range of a double (OverflowError), and 0.0 to a negative power is a
\* ZeroDivisionError.
pow(x, y) ==
    IF y = 0 \/ x = 1 THEN [exc |-> "none", r |-> Rat(1, 1)]
    ELSE IF x = 0
    THEN IF y < 0 THEN [exc |-> "ZeroDivisionError", r |-> NoNumber]
                  ELSE [exc |-> "none", r |-> Rat(0, 1)]
    ELSE IF x = -1
    THEN [exc |-> "none", r |-> Rat(IF Abs(y) % 2 = 0 THEN 1 ELSE -1, 1)]
    ELSE IF Log2Floor(Abs(x)) * Abs(y) >= 1024
    THEN IF y > 0 THEN [exc |-> "OverflowError", r |-> NoNumber]
                  ELSE [exc |-> "none", r |-> Rat(0, 1)]
    ELSE IF y > 0 THEN [exc |-> "none", r |-> Rat(IntPow(x, y), 1)]
                  ELSE [exc |-> "none", r |-> Rat(1, IntPow(x, -y))]

\* x % y of two floats, y # 0: the remainder has the sign of y.
mod(x, y) == IF y > 0 THEN x % y ELSE -((-x) % (-y))

\* The dict `operations`, in the order the literal lists it.
operations == <<"add", "subtract", "multiply", "divide", "power", "modulo">>

\* operations[operation](a, b): [exc, none, r], none when the lambda returns
\* None.
Apply(operation, x, y) ==
    CASE operation = "add"      -> [exc |-> "none", none |-> FALSE, r |-> Rat(x + y, 1)]
      [] operation = "subtract" -> [exc |-> "none", none |-> FALSE, r |-> Rat(x - y, 1)]
      [] operation = "multiply" -> [exc |-> "none", none |-> FALSE, r |-> Rat(x * y, 1)]
      [] operation = "divide"   ->
            IF y # 0 THEN [exc |-> "none", none |-> FALSE, r |-> Rat(x, y)]
                     ELSE [exc |-> "none", none |-> TRUE, r |-> NoNumber]
      [] operation = "power"    ->
            [exc |-> pow(x, y).exc, none |-> FALSE, r |-> pow(x, y).r]
      [] operation = "modulo"   ->
            IF y # 0 THEN [exc |-> "none", none |-> FALSE, r |-> Rat(mod(x, y), 1)]
                     ELSE [exc |-> "none", none |-> TRUE, r |-> NoNumber]

handle_calculate(command_data, st) ==
    IF NotADict(command_data) THEN Raise(Exception("AttributeError"), st)
    ELSE LET operation == get(command_data.operation)
             a == command_data.a
             b == command_data.b
             fa == float(a)
             fb == float(b)
         IN  IF operation = None \/ a.j \in {"absent", "null"}
                                \/ b.j \in {"absent", "null"}
             THEN Raise(ServerError("INVALID_INPUT"), st)
             ELSE IF fa.exc \in {"ValueError", "TypeError"}
             THEN Raise(ServerError("INVALID_INPUT"), st)
             ELSE IF fa.exc # "none" THEN Raise(Exception(fa.exc), st)
             ELSE IF fb.exc \in {"ValueError", "TypeError"}
             THEN Raise(ServerError("INVALID_INPUT"), st)
             ELSE IF fb.exc # "none" THEN Raise(Exception(fb.exc), st)
             ELSE IF ~ \E i \in 1..Len(operations) : operations[i] = operation
             THEN Raise(ServerError("INVALID_OPERATION"), st)
             ELSE LET result == Apply(operation, fa.f, fb.f)
                  IN  IF result.exc # "none" THEN Raise(Exception(result.exc), st)
                      ELSE IF result.none
                      THEN Raise(ServerError("MATH_ERROR"), st)
                      ELSE Return([NoPayload EXCEPT !.kind = "calculate",
                                                    !.text = operation,
                                                    !.a = Rat(fa.f, 1),
                                                    !.b = Rat(fb.f, 1),
                                                    !.result = result.r], st)

handle_store(command_data, st) ==
    IF NotADict(command_data) THEN Raise(Exception("AttributeError"), st)
    ELSE LET key == get(command_data.key)
             value == get(command_data.value)
         IN  IF key = None
             THEN Raise(ServerError("INVALID_INPUT"), st)
             ELSE Return([NoPayload EXCEPT !.kind = "stored", !.key = key],
                         DictSet(st, key, value))

\* handle_retrieve up to `key not in storage`.
handle_retrieve(command_data, st) ==
    IF NotADict(command_data) THEN Raise(Exception("AttributeError"), st)
    ELSE LET key == get(command_data.key)
         IN  IF key = None
             THEN Raise(ServerError("INVALID_INPUT"), st)
             ELSE IF ~DictHas(st, key)
             THEN Raise(ServerError("KEY_NOT_FOUND"), st)
             ELSE Continue(st, <<>>)

\* A faulty variant of handle_retrieve_read: storage.pop(key), which removes
\* the entry it reads.
handle_retrieve_pop(command_data, st) ==
    LET key == get(command_data.key)
    IN  IF ~DictHas(st, key)
        THEN Raise(Exception("KeyError"), st)
        ELSE Return([NoPayload EXCEPT !.kind = "value", !.key = key,
                                      !.value = DictGet(st, key)],
                    DictDel(st, key))

\* handle_retrieve from `storage[key]` on.
handle_retrieve_read(command_data, st) ==
    LET key == get(command_data.key)
    IN  IF ~DictHas(st, key)
        THEN Raise(Exception("KeyError"), st)
        ELSE Return([NoPayload EXCEPT !.kind = "value", !.key = key,
                                      !.value = DictGet(st, key)], st)

\* handle_list_keys: list(storage.keys()), then len(storage).
handle_list_keys(command_data, st) == Continue(st, DictKeys(st))

\* A faulty variant of handle_list_keys_count: the length of the list built
\* before, not of storage as it is now.
handle_list_keys_len_keys(keys, st) ==
    Return([NoPayload EXCEPT !.kind = "keys", !.keys = keys, !.count = Len(keys)], st)

handle_list_keys_count(keys, st) ==
    Return([NoPayload EXCEPT !.kind = "keys", !.keys = keys, !.count = DictLen(st)],
           st)

\* handle_delete up to `key not in storage`.
handle_delete(command_data, st) ==
    IF NotADict(command_data) THEN Raise(Exception("AttributeError"), st)
    ELSE LET key == get(command_data.key)
         IN  IF key = None
             THEN Raise(ServerError("INVALID_INPUT"), st)
             ELSE IF ~DictHas(st, key)
             THEN Raise(ServerError("KEY_NOT_FOUND"), st)
             ELSE Continue(st, <<>>)

\* A faulty variant of handle_delete_del: the answer without the removal.
handle_delete_keep(command_data, st) ==
    LET key == get(command_data.key)
    IN  IF ~DictHas(st, key)
        THEN Raise(Exception("KeyError"), st)
        ELSE Return([NoPayload EXCEPT !.kind = "deleted", !.key = key], st)

\* handle_delete from `del storage[key]` on.
handle_delete_del(command_data, st) ==
    LET key == get(command_data.key)
    IN  IF ~DictHas(st, key)
        THEN Raise(Exception("KeyError"), st)
        ELSE Return([NoPayload EXCEPT !.kind = "deleted", !.key = key],
                    DictDel(st, key))

handle_ping(command_data, st) ==
    Return([NoPayload EXCEPT !.kind = "ping", !.count = DictLen(st)], st)

handle_help(command_data, st) ==
    Return([NoPayload EXCEPT !.kind = "help", !.keys = COMMAND_HANDLERS], st)

\* handler = COMMAND_HANDLERS[command]; handler(command_data), to its first stop.
CallHandler(command, command_data, st) ==
    CASE command = "echo"      -> handle_echo(command_data, st)
      [] command = "time"      -> handle_time(command_data, st)
      [] command = "calculate" -> handle_calculate(command_data, st)
      [] command = "store"     -> handle_store(command_data, st)
      [] command = "retrieve"  -> handle_retrieve(command_data, st)
      [] command = "list_keys" -> handle_list_keys(command_data, st)
      [] command = "delete"    -> handle_delete(command_data, st)
      [] command = "ping"      -> handle_ping(command_data, st)
      [] command = "help"      -> handle_help(command_data, st)

\* The rest of a handler that stopped with "continue".
ResumeHandler(command, command_data, keys, st) ==
    CASE command = "retrieve"  -> handle_retrieve_read(command_data, st)
      [] command = "delete"    -> handle_delete_del(command_data, st)
      [] command = "list_keys" -> handle_list_keys_count(keys, st)

(***************************************************************************)
(* process_command.  Its outcome is [raised, err, resp, st, more, keys]:   *)
(* raised with err when an exception leaves the function, else resp, the   *)
(* envelope it returns; more when the handler has a second access to make. *)
(***************************************************************************)
NoResponse == create_response(None, FALSE, NoPayload, "")

Outcome(raised, err, resp, r) ==
    [raised |-> raised, err |-> err, resp |-> resp, st |-> r.st,
     more |-> r.status = "continue", keys |-> r.keys]

\* The try/except around the handler call.
Guarded(request_id, r) ==
    IF r.status = "continue" THEN Outcome(FALSE, NoError, NoResponse, r)
    ELSE IF r.status = "return"
    THEN Outcome(FALSE, NoError, create_response(request_id, TRUE, r.data, ""), r)
    ELSE IF r.err.exc = "ServerError"
    THEN Outcome(FALSE, NoError, create_error_response(request_id, r.err.code), r)
    ELSE Outcome(FALSE, NoError,
                 create_error_response(request_id, "INTERNAL_ERROR"), r)

command_data_of(message) ==
    IF message.data.t = "absent" THEN NoMembers ELSE message.data

process_command(parsed, st) ==
    IF parsed.kind # "object"
    THEN Outcome(TRUE, Exception("AttributeError"), NoResponse, Raise(NoError, st))
    ELSE LET message == parsed.msg
             request_id == get(message.request_id)
             command == get(message.command)
         IN  IF ~Truthy(command)
             THEN Outcome(TRUE, ServerError("INVALID_REQUEST"), NoResponse,
                          Raise(NoError, st))
             ELSE IF ~Registered(command)
             THEN Outcome(TRUE, ServerError("UNKNOWN_COMMAND"), NoResponse,
                          Raise(NoError, st))
             ELSE Guarded(request_id,
                          CallHandler(command, command_data_of(message), st))

\* process_command from the handler's second access of storage on.
process_command_resume(message, keys, st) ==
    Guarded(get(message.request_id),
            ResumeHandler(get(message.command), command_data_of(message), keys, st))

(***************************************************************************)
(* State.                                                                  *)
(*   storage    the global dict                                            *)
(*   backlog    connections made by clients and not yet accepted           *)
(*   connected  the client has called connect()                            *)
(*   peerClosed the client has closed its socket                           *)
(*   sock       bytes sent by the client and not yet received              *)
(*   pc         the handler thread: "none" (not started), "welcome",       *)
(*              "recv", "scan" (in the while loop, a newline in buffer),   *)
(*              "resume" (inside a handler, before its second access of    *)
(*              storage), "done" (connection closed, thread ended)         *)
(*   buffer     handle_client's local `buffer`                             *)
(*   cur        the request a thread at "resume" is in                     *)
(*   out        what the handler has written to the client, in order       *)
(* History, read by no action's guard:                                     *)
(*   sent       every byte the client has sent                             *)
(*   nsend      the number of send() calls of all clients so far           *)
(*   shadow     per key, what the successful store/delete responses so     *)
(*              far say about it: "never" stored, "stored" (with the       *)
(*              value), or "deleted" since                                 *)
(* Each entry of out is [env, line, first, last]: the envelope written,    *)
(* and as history the frame it answers and shadow as it was at the         *)
(* handler's first and last access of storage.                             *)
(***************************************************************************)
VARIABLES storage, backlog, connected, peerClosed, sock, pc, buffer, cur, out,
          sent, nsend, shadow

vars == <<storage, backlog, connected, peerClosed, sock, pc, buffer, cur, out,
          sent, nsend, shadow>>

Keys == {"k1", "k2"}

ShadowInit == [k \in Keys |-> [state |-> "never", value |-> None]]

NoCur == [line |-> <<>>, msg |-> Msg(Absent, Absent, DataAbsent), keys |-> <<>>,
          first |-> ShadowInit]

Init ==
    /\ storage = <<>>
    /\ backlog = <<>>
    /\ connected = [c \in Conns |-> FALSE]
    /\ peerClosed = [c \in Conns |-> FALSE]
    /\ sock = [c \in Conns |-> <<>>]
    /\ pc = [c \in Conns |-> "none"]
    /\ buffer = [c \in Conns |-> <<>>]
    /\ cur = [c \in Conns |-> NoCur]
    /\ out = [c \in Conns |-> <<>>]
    /\ sent = [c \in Conns |-> <<>>]
    /\ nsend = 0
    /\ shadow = ShadowInit

(***************************************************************************)
(* Clients.                                                                *)
(***************************************************************************)
Connect(c) ==
    /\ ~connected[c]
    /\ Len(backlog) < LISTEN_BACKLOG
    /\ connected' = [connected EXCEPT ![c] = TRUE]
    /\ backlog' = Append(backlog, c)
    /\ UNCHANGED <<storage, peerClosed, sock, pc, buffer, cur, out, sent, nsend,
                   shadow>>

\* One send() of the bytes `piece`; it fails once the server has closed.
ClientSend(c, piece) ==
    /\ connected[c] /\ ~peerClosed[c] /\ pc[c] # "done"
    /\ nsend < MaxSend
    /\ sock' = [sock EXCEPT ![c] = @ \o piece]
    /\ sent' = [sent EXCEPT ![c] = @ \o piece]
    /\ nsend' = nsend + 1
    /\ UNCHANGED <<storage, backlog, connected, peerClosed, pc, buffer, cur, out,
                   shadow>>

ClientClose(c) ==
    /\ connected[c] /\ ~peerClosed[c]
    /\ peerClosed' = [peerClosed EXCEPT ![c] = TRUE]
    /\ UNCHANGED <<storage, backlog, connected, sock, pc, buffer, cur, out, sent,
                   nsend, shadow>>

(***************************************************************************)
(* start_server's loop: accept, start the handler thread, accept again.    *)
(***************************************************************************)
\* A faulty variant of Accept: handle_client(conn, addr) called in the accept
\* loop itself, so that the next accept waits for the handler to end.
AcceptWhenIdle ==
    /\ backlog # <<>>
    /\ \A c \in Conns : pc[c] \in {"none", "done"}
    /\ backlog' = Tail(backlog)
    /\ pc' = [pc EXCEPT ![Head(backlog)] = "welcome"]
    /\ UNCHANGED <<storage, connected, peerClosed, sock, buffer, cur, out, sent,
                   nsend, shadow>>

\* A faulty variant of Accept: the handler thread starts at its receive loop,
\* without the welcome.
AcceptNoWelcome ==
    /\ backlog # <<>>
    /\ backlog' = Tail(backlog)
    /\ pc' = [pc EXCEPT ![Head(backlog)] = "recv"]
    /\ UNCHANGED <<storage, connected, peerClosed, sock, buffer, cur, out, sent,
                   nsend, shadow>>

Accept ==
    /\ backlog # <<>>
    /\ backlog' = Tail(backlog)
    /\ pc' = [pc EXCEPT ![Head(backlog)] = "welcome"]
    /\ UNCHANGED <<storage, connected, peerClosed, sock, buffer, cur, out, sent,
                   nsend, shadow>>

(***************************************************************************)
(* handle_client.                                                          *)
(***************************************************************************)
welcome ==
    create_response(None, TRUE,
                    [NoPayload EXCEPT !.kind = "welcome", !.keys = COMMAND_HANDLERS],
                    "")

Entry(env, line, first, last) ==
    [env |-> env, line |-> line, first |-> first, last |-> last]

\* while '\n' in buffer
HasFrame(buf) == HasNewline(buf)

\* Where the thread goes with `buf` as its buffer: into the while loop's body,
\* or back to recv.
Loop(buf) == IF HasFrame(buf) THEN "scan" ELSE "recv"

\* conn.send(...): BrokenPipeError when the peer has closed, which ends the
\* handler (from the except clauses of the loop a second send fails alike).
SendOrDie(c, entry, buf) ==
    IF peerClosed[c]
    THEN /\ out' = out
         /\ pc' = [pc EXCEPT ![c] = "done"]
    ELSE /\ out' = [out EXCEPT ![c] = Append(@, entry)]
         /\ pc' = [pc EXCEPT ![c] = Loop(buf)]

Welcome(c) ==
    /\ pc[c] = "welcome"
    /\ IF peerClosed[c]
       THEN /\ out' = out
            /\ pc' = [pc EXCEPT ![c] = "done"]
       ELSE /\ out' = [out EXCEPT ![c] = <<Entry(welcome, <<>>, shadow, shadow)>>]
            /\ pc' = [pc EXCEPT ![c] = "recv"]
    /\ buffer' = [buffer EXCEPT ![c] = <<>>]
    /\ UNCHANGED <<storage, backlog, connected, peerClosed, sock, cur, sent, nsend,
                   shadow>>

\* A faulty variant of Extend: buffer = data.decode('utf-8'), which forgets
\* the text held back.
Overwrite(buf, text) == text

\* buffer += data.decode('utf-8')
Extend(buf, text) == buf \o text

\* data = conn.recv(MAX_MESSAGE_SIZE) with data; a chunk that does not decode
\* raises UnicodeDecodeError to the outer except, which ends the handler.
Recv(c) ==
    /\ pc[c] = "recv"
    /\ sock[c] # <<>>
    /\ \E n \in 1..Min(Len(sock[c]), MAX_MESSAGE_SIZE) :
         LET data == SubSeq(sock[c], 1, n)
         IN  /\ sock' = [sock EXCEPT ![c] = SubSeq(@, n + 1, Len(@))]
             /\ IF DecodeFails(data)
                THEN /\ pc' = [pc EXCEPT ![c] = "done"]
                     /\ buffer' = [buffer EXCEPT ![c] = <<>>]
                ELSE /\ pc' = [pc EXCEPT ![c] = Loop(Extend(buffer[c], decode(data)))]
                     /\ buffer' = [buffer EXCEPT ![c] = Extend(@, decode(data))]
    /\ UNCHANGED <<storage, backlog, connected, peerClosed, cur, out, sent, nsend,
                   shadow>>

\* recv returns b'' (or raises ConnectionResetError) once the peer has closed
\* and nothing is left to read: the loop ends and the connection is closed.
RecvEnd(c) ==
    /\ pc[c] = "recv"
    /\ sock[c] = <<>>
    /\ peerClosed[c]
    /\ pc' = [pc EXCEPT ![c] = "done"]
    /\ buffer' = [buffer EXCEPT ![c] = <<>>]
    /\ UNCHANGED <<storage, backlog, connected, peerClosed, sock, cur, out, sent,
                   nsend, shadow>>

\* The except clauses of the loop body.
on_JSONDecodeError == create_error_response(None, "INVALID_JSON")

on_Exception == create_error_response(None, "PROCESSING_ERROR")

\* What shadow becomes when `env` answers `message`.
ShadowAfter(sh, message, env) ==
    LET key == get(message.data.key)
    IN  IF env.success /\ key \in Keys /\ message.command = "store"
        THEN [sh EXCEPT ![key] = [state |-> "stored",
                                  value |-> get(message.data.value)]]
        ELSE IF env.success /\ key \in Keys /\ message.command = "delete"
        THEN [sh EXCEPT ![key] = [state |-> "deleted", value |-> None]]
        ELSE sh

\* One turn of `while '\n' in buffer`, to the handler's next access of
\* storage or to the send of the response.
NextLine(c) ==
    /\ pc[c] = "scan"
    /\ LET parts == split(buffer[c])
           line == strip(parts[1])
           rest == parts[2]
           parsed == json_loads(line)
           o == process_command(parsed, storage)
       IN  /\ buffer' = [buffer EXCEPT ![c] = rest]
           /\ IF line = <<>>
              THEN /\ pc' = [pc EXCEPT ![c] = Loop(rest)]
                   /\ UNCHANGED <<storage, cur, out, shadow>>
              ELSE IF parsed.kind = "JSONDecodeError"
              THEN /\ SendOrDie(c, Entry(on_JSONDecodeError, line, shadow, shadow), rest)
                   /\ UNCHANGED <<storage, cur, shadow>>
              ELSE IF parsed.kind = "RecursionError" \/ o.raised
              THEN /\ SendOrDie(c, Entry(on_Exception, line, shadow, shadow), rest)
                   /\ UNCHANGED <<storage, cur, shadow>>
              ELSE IF o.more
              THEN /\ pc' = [pc EXCEPT ![c] = "resume"]
                   /\ cur' = [cur EXCEPT ![c] = [line |-> line, msg |-> parsed.msg,
                                                 keys |-> o.keys, first |-> shadow]]
                   /\ UNCHANGED <<storage, out, shadow>>
              ELSE /\ storage' = o.st
                   /\ shadow' = ShadowAfter(shadow, parsed.msg, o.resp)
                   /\ SendOrDie(c, Entry(o.resp, line, shadow, shadow), rest)
                   /\ UNCHANGED cur
    /\ UNCHANGED <<backlog, connected, peerClosed, sock, sent, nsend>>

\* The handler's second access of storage, and the send of the response.
Resume(c) ==
    /\ pc[c] = "resume"
    /\ LET o == process_command_resume(cur[c].msg, cur[c].keys, storage)
       IN  /\ storage' = o.st
           /\ shadow' = ShadowAfter(shadow, cur[c].msg, o.resp)
           /\ SendOrDie(c, Entry(o.resp, cur[c].line, cur[c].first, shadow), buffer[c])
    /\ cur' = [cur EXCEPT ![c] = NoCur]
    /\ UNCHANGED <<backlog, connected, peerClosed, sock, buffer, sent, nsend>>

Server(c) ==
    \/ Welcome(c)
    \/ Recv(c)
    \/ RecvEnd(c)
    \/ NextLine(c)
    \/ Resume(c)

(***************************************************************************)
(* What the clients send.                                                  *)
(***************************************************************************)
Frame(tok) == <<tok, NL>>

\* Store, retrieve and delete of one key, from every connection.
StorePieces ==
    { Frame(t) : t \in {"store k1 v1", "store k1 null", "retrieve k1", "delete k1"} }

Next ==
    \/ Accept
    \/ \E c \in Conns : Server(c)
    \/ \E c \in Conns : Connect(c)
    \/ \E c \in Conns : ClientClose(c)
    \/ \E c \in Conns : \E piece \in StorePieces : ClientSend(c, piece)

Spec == Init /\ [][Next]_vars

\* Two keys, list_keys and ping, from every connection.
CountPieces ==
    { Frame(t) : t \in {"store k1 v1", "store k2", "delete k1", "list_keys", "ping"} }

NextCount ==
    \/ Accept
    \/ \E c \in Conns : Server(c)
    \/ \E c \in Conns : Connect(c)
    \/ \E c \in Conns : ClientClose(c)
    \/ \E c \in Conns : \E piece \in CountPieces : ClientSend(c, piece)

SpecCount == Init /\ [][NextCount]_vars

\* One client; whole frames, frames without their newline, empty frames,
\* frames that are no JSON, and a two-byte character.
FramePieces ==
    { Frame("list_keys"), <<"list_keys">>, <<NL>>, <<SP>>, <<"x", NL>>,
      <<"[]", NL>>, <<"[[[", NL>>, <<"C3", "A9">> }

NextFraming ==
    \/ Accept
    \/ \E c \in Conns : Server(c)
    \/ Connect(1)
    \/ ClientClose(1)
    \/ \E piece \in FramePieces : ClientSend(1, piece)

SpecFraming == Init /\ [][NextFraming]_vars

\* One client; whole frames whose command is missing, empty, unknown or
\* registered, with and without a request_id.
DispatchPieces ==
    { Frame(t) : t \in {"{}", "#r1", "empty", "empty #r1", "nope", "nope #r1",
                        "ping", "ping #", "ping #r1", "list_keys #r1",
                        "echo hi #r1", "echo #r1", "retrieve k1 #r1",
                        "store null #r1", "store nokey", "time", "help"} }

NextDispatch ==
    \/ Accept
    \/ \E c \in Conns : Server(c)
    \/ Connect(1)
    \/ ClientClose(1)
    \/ \E piece \in DispatchPieces : ClientSend(1, piece)

SpecDispatch == Init /\ [][NextDispatch]_vars

\* One client; calculate with every operation, with operands that are numbers,
\* numeric strings, other strings, null or missing, and with the edge cases
\* of divide, modulo and power; and list_keys, a command of another kind.
CalcPieces ==
    { Frame(t) : t \in {"calc add 2 3", "calc add '2' 3", "calc add x 3",
                        "calc add 2", "calc add null 3", "calc root 2 3",
                        "calc subtract 2 3", "calc multiply 2 3",
                        "calc divide 6 4", "calc divide 3 0", "calc divide 0 0",
                        "calc divide '3' '0'", "calc divide big 0",
                        "calc modulo 7 -3", "calc modulo -1 0",
                        "calc modulo 3 '0'", "calc power 2 3", "calc power 2 -1",
                        "calc power 0 -1", "calc power 2 1024", "list_keys"} }

NextCalc ==
    \/ Accept
    \/ \E c \in Conns : Server(c)
    \/ Connect(1)
    \/ ClientClose(1)
    \/ \E piece \in CalcPieces : ClientSend(1, piece)

SpecCalc == Init /\ [][NextCalc]_vars

\* Two clients.  The first sends commands that change storage, commands that
\* fail, commands that only read, and a frame that is no JSON; the others
\* store, delete and close.
EffectPieces ==
    { Frame(t) : t \in {"store k1 v1", "store k2", "delete k1", "store nokey",
                        "retrieve k1", "list_keys", "ping", "echo hi #r1", "time",
                        "help", "calc add 2 3"} }
        \cup {<<"x", NL>>}

OtherPieces == { Frame(t) : t \in {"store k1 v1", "delete k1"} }

NextEffect ==
    \/ Accept
    \/ \E c \in Conns : Server(c)
    \/ \E c \in Conns : Connect(c)
    \/ \E c \in Conns \ {1} : ClientClose(c)
    \/ \E piece \in EffectPieces : ClientSend(1, piece)
    \/ \E c \in Conns \ {1} : \E piece \in OtherPieces : ClientSend(c, piece)

SpecEffect == Init /\ [][NextEffect]_vars

\* Two clients that store and retrieve.  The main thread (the accept loop) and
\* the handler thread of connection 1 are scheduled again and again; the
\* handler thread of connection 2 may stop for ever wherever it is: waiting
\* in recv, about to send, or inside a handler.
LivePieces == { Frame(t) : t \in {"store k1 v1", "retrieve k1"} }

NextLive ==
    \/ Accept
    \/ \E c \in Conns : Server(c)
    \/ \E c \in Conns : Connect(c)
    \/ \E c \in Conns : ClientClose(c)
    \/ \E c \in Conns : \E piece \in LivePieces : ClientSend(c, piece)

\* Weak fairness of NextLine(c), with ENABLED NextLine(c) written out: the
\* action is enabled exactly when the thread is in the while loop's body.
FairNextLine(c) == []<>(pc[c] # "scan") \/ []<><<NextLine(c)>>_vars

SpecLive ==
    /\ Init /\ [][NextLive]_vars
    /\ WF_vars(Accept)
    /\ WF_vars(Welcome(1)) /\ WF_vars(Recv(1)) /\ WF_vars(RecvEnd(1))
    /\ FairNextLine(1) /\ WF_vars(Resume(1))

(***************************************************************************)
(* Reading the history.  These definitions are the properties' vocabulary; *)
(* they use none of the operators above that model the framing loop.       *)
(***************************************************************************)
\* The entries of out[c] that answer a frame (the first entry is the welcome).
Answers(c) == { i \in 1..Len(out[c]) : out[c][i].line # <<>> }

Request(e) == json_loads(e.line)

\* The text of one JSON value.
IsJson(line) == Len(line) = 1 /\ line[1] \in Tokens \cup {"[]"}

IsObject(e) == Request(e).kind = "object"

CommandOf(e) == Request(e).msg.command

KeyOf(e) == Request(e).msg.data.key

Code(e) == e.env.error

\* C1: a retrieve or a delete that names a key is answered with success or with
\* KEY_NOT_FOUND, whatever other connections do between its presence check and
\* its read or removal: never with another error code.
C1_StorageAccessAtomic ==
    \A c \in Conns : \A i \in Answers(c) :
        LET e == out[c][i]
        IN  (IsObject(e) /\ CommandOf(e) \in {"retrieve", "delete"} /\ KeyOf(e) \in Keys)
                => (e.env.success \/ Code(e) = "KEY_NOT_FOUND")

\* C8: a retrieve of k that runs while the last successful store of k, with
\* value v, is neither overwritten nor deleted succeeds with value v.
C8_RoundTrip ==
    \A c \in Conns : \A i \in Answers(c) : \A k \in Keys :
        LET e == out[c][i]
        IN  (/\ IsObject(e) /\ CommandOf(e) = "retrieve" /\ KeyOf(e) = k
             /\ e.first[k].state = "stored"
             /\ e.last[k] = e.first[k])
                => (/\ e.env.success
                    /\ e.env.data.kind = "value"
                    /\ e.env.data.key = k
                    /\ e.env.data.value = e.first[k].value)

StoredBy(c, k, v) ==
    \E i \in Answers(c) :
        /\ IsObject(out[c][i]) /\ CommandOf(out[c][i]) = "store"
        /\ KeyOf(out[c][i]) = k /\ get(Request(out[c][i]).msg.data.value) = v
        /\ out[c][i].env.success

\* A retrieve answered with null on a connection that stored nothing, after
\* another connection stored null.
C8_Witness ==
    \E c \in Conns : \E d \in Conns \ {c} : \E i \in Answers(c) :
        /\ CommandOf(out[c][i]) = "retrieve"
        /\ out[c][i].env.success
        /\ out[c][i].env.data.value = None
        /\ out[c][i].first["k1"] = [state |-> "stored", value |-> None]
        /\ StoredBy(d, "k1", None)
        /\ ~ \E v \in {None, "v1"} : StoredBy(c, "k1", v)

\* C9: a retrieve or a delete of k that starts when k was stored, then
\* successfully deleted and not stored since fails with KEY_NOT_FOUND.
C9_DeletedIsNotFound ==
    \A c \in Conns : \A i \in Answers(c) : \A k \in Keys :
        LET e == out[c][i]
        IN  (/\ IsObject(e) /\ CommandOf(e) \in {"retrieve", "delete"} /\ KeyOf(e) = k
             /\ e.first[k].state = "deleted")
                => (~e.env.success /\ Code(e) = "KEY_NOT_FOUND")

\* A retrieve that found the key deleted.
C9_Witness ==
    \E c \in Conns : \E i \in Answers(c) :
        /\ CommandOf(out[c][i]) = "retrieve"
        /\ out[c][i].first["k1"].state = "deleted"
        /\ Code(out[c][i]) = "KEY_NOT_FOUND"

\* A second delete that found the key deleted.
C9_WitnessDelete ==
    \E c \in Conns : \E i \in Answers(c) :
        /\ CommandOf(out[c][i]) = "delete"
        /\ out[c][i].first["k1"].state = "deleted"
        /\ Code(out[c][i]) = "KEY_NOT_FOUND"

(***************************************************************************)
(* The reference framing of a whole byte stream, whatever the chunks it    *)
(* arrives in: the text of its longest decodable prefix, cut at every      *)
(* newline, each piece trimmed, the empty ones dropped.                    *)
(***************************************************************************)
RECURSIVE RefText(_)
RefText(bs) ==
    IF bs = <<>> THEN <<>>
    ELSE IF bs[1] = "C3"
         THEN IF Len(bs) >= 2 /\ bs[2] = "A9"
              THEN <<"E9">> \o RefText(SubSeq(bs, 3, Len(bs)))
              ELSE <<>>
         ELSE IF bs[1] = "A9" THEN <<>>
              ELSE <<bs[1]>> \o RefText(SubSeq(bs, 2, Len(bs)))

Trim(s) ==
    LET ink == { i \in 1..Len(s) : s[i] # SP }
    IN  IF ink = {} THEN <<>>
        ELSE SubSeq(s, CHOOSE i \in ink : \A j \in ink : i <= j,
                       CHOOSE i \in ink : \A j \in ink : i >= j)

RECURSIVE RefLines(_, _)
RefLines(text, line) ==
    IF text = <<>> THEN <<>>
    ELSE IF text[1] = NL
         THEN (IF Trim(line) = <<>> THEN <<>> ELSE <<Trim(line)>>)
              \o RefLines(SubSeq(text, 2, Len(text)), <<>>)
         ELSE RefLines(SubSeq(text, 2, Len(text)), Append(line, text[1]))

RefFrames(bs) == RefLines(RefText(bs), <<>>)

\* The bytes of connection c the handler has received.
Consumed(c) == SubSeq(sent[c], 1, Len(sent[c]) - Len(sock[c]))

\* The frames the handler of c has taken up: the answered ones and the one a
\* thread inside a handler is working on.
TakenUp(c) ==
    (IF Len(out[c]) > 0 THEN Len(out[c]) - 1 ELSE 0)
        + (IF pc[c] = "resume" THEN 1 ELSE 0)

\* C2: a decoded object without a command, or with an empty one, is answered
\* with INVALID_REQUEST; one with an unregistered command with UNKNOWN_COMMAND.
C2_DispatchErrorCodes ==
    \A c \in Conns : \A i \in Answers(c) :
        LET e == out[c][i]
            command == CommandOf(e)
        IN  IsObject(e) =>
              /\ (command \in {Absent, ""})
                    => (~e.env.success /\ Code(e) = "INVALID_REQUEST")
              /\ (command \in {"nope"})
                    => (~e.env.success /\ Code(e) = "UNKNOWN_COMMAND")

\* C3: the response to a decoded object carries the object's request_id, and
\* none when the object has none.
C3_RequestIdEchoed ==
    \A c \in Conns : \A i \in Answers(c) :
        IsObject(out[c][i])
            => out[c][i].env.request_id = Request(out[c][i]).msg.request_id

\* C4: a handler thread ends only when the peer has closed (the one I/O
\* failure there is): no byte it receives ends it.
C4_EndsOnlyOnIOFailure ==
    \A c \in Conns : pc[c] = "done" => peerClosed[c]

\* C5: a frame that is no JSON is answered once, with INVALID_JSON and no
\* request_id, and the frames after it are answered too: a handler waiting in
\* recv has answered every frame it has received, in place.
C5_InvalidJsonAnswered ==
    \A c \in Conns :
        /\ \A i \in Answers(c) :
              ~IsJson(out[c][i].line)
                => /\ ~out[c][i].env.success
                   /\ Code(out[c][i]) = "INVALID_JSON"
                   /\ out[c][i].env.request_id = Absent
                   /\ out[c][i].env.data = NoPayload
        /\ pc[c] = "recv" =>
              LET F == RefFrames(Consumed(c))
              IN  /\ Len(out[c]) = Len(F) + 1
                  /\ \A i \in 1..Len(F) : out[c][i + 1].line = F[i]

\* C6: the answers of a connection are the answers to the first frames of its
\* byte stream, in the stream's order, and a thread inside a handler works on
\* the frame right after the answered ones.
C6_ResponsesInOrder ==
    \A c \in Conns :
        LET F == RefFrames(sent[c])
            n == Len(out[c])
        IN  /\ n > 0 => out[c][1].line = <<>>
            /\ TakenUp(c) <= Len(F)
            /\ \A i \in 2..n : out[c][i].line = F[i - 1]
            /\ pc[c] = "resume" => cur[c].line = F[TakenUp(c)]

\* The first of two frames received together is answered and the second is
\* still in the buffer, while the other connection has been answered too.
C6_Witness ==
    \E c \in Conns : \E d \in Conns \ {c} :
        /\ Len(out[c]) = 2
        /\ pc[c] = "scan"
        /\ Len(RefFrames(buffer[c])) = 1
        /\ Len(out[d]) >= 2

\* C7: only frames whose newline has been received are taken up, and the text
\* after the last newline received stays in the buffer: the buffer of a live
\* handler is the rest of the received text after the frames taken up, and a
\* handler in recv holds exactly the unterminated rest.
C7_OnlyCompleteFrames ==
    \A c \in Conns :
        LET T == RefText(Consumed(c))
        IN  /\ TakenUp(c) <= Len(RefFrames(Consumed(c)))
            /\ pc[c] \in {"recv", "scan", "resume"} =>
                  \E j \in 0..Len(T) :
                     /\ j = 0 \/ T[j] = NL
                     /\ buffer[c] = SubSeq(T, j + 1, Len(T))
                     /\ Len(RefFrames(SubSeq(T, 1, j))) = TakenUp(c)
            /\ pc[c] = "recv" => \A i \in 1..Len(buffer[c]) : buffer[c][i] # NL

\* The peer has closed after a request without its newline: the handler has
\* read it, has ended, and has written the welcome only.
C7_Witness ==
    \E c \in Conns :
        /\ pc[c] = "done" /\ peerClosed[c]
        /\ sock[c] = <<>>
        /\ sent[c] = <<SP, "list_keys">>
        /\ Len(out[c]) = 1

\* C10: the count of a list_keys response, and the storage_size of a ping
\* response, is the number of keys stored and not deleted since, as the
\* successful stores and deletes of all connections had left it when the
\* command read the size.
Held(sh) == Cardinality({ k \in Keys : sh[k].state = "stored" })

C10_CountIsKeysHeld ==
    \A c \in Conns : \A i \in Answers(c) :
        LET e == out[c][i]
        IN  (IsObject(e) /\ CommandOf(e) \in {"list_keys", "ping"})
                => (e.env.success /\ e.env.data.count = Held(e.last))

\* list_keys counts two keys stored by two connections, and a ping counts one
\* key after a delete.
C10_Witness ==
    \E c \in Conns : \E d \in Conns \ {c} : \E i \in Answers(c) :
        /\ CommandOf(out[c][i]) = "list_keys"
        /\ out[c][i].env.data.count = 2
        /\ \E j \in Answers(d) : CommandOf(out[d][j]) = "store"
        /\ \E j \in Answers(c) : CommandOf(out[c][j]) = "store"

\* The token `tok` is among the bytes connection c has sent.
Sends(c, tok) == \E i \in 1..Len(sent[c]) : sent[c][i] = tok

StoredKeys(sh) == { k \in Keys : sh[k].state = "stored" }

\* C11: when no connection ever sends a delete, every store that names a key
\* answers success, and a list_keys that starts after the store responses (and
\* has no store completing beside it) returns exactly the keys stored so far,
\* each once, with count their number: no store of one connection is lost to a
\* store of another.
C11_NoLostUpdate ==
    (\A c \in Conns : ~Sends(c, "delete k1")) =>
        \A c \in Conns : \A i \in Answers(c) :
            LET e == out[c][i]
            IN  /\ (IsObject(e) /\ CommandOf(e) = "store" /\ KeyOf(e) \in Keys)
                      => e.env.success
                /\ (IsObject(e) /\ CommandOf(e) = "list_keys" /\ e.first = e.last)
                      => /\ e.env.success
                         /\ { e.env.data.keys[j] : j \in 1..Len(e.env.data.keys) }
                               = StoredKeys(e.first)
                         /\ Len(e.env.data.keys) = Cardinality(StoredKeys(e.first))
                         /\ e.env.data.count = Cardinality(StoredKeys(e.first))

\* Two connections have each stored a key of their own, both with success, and
\* a list_keys that started after both responses lists the two keys.
C11_Witness ==
    \E c \in Conns : \E d \in Conns \ {c} : \E i \in Answers(c) :
        /\ \A b \in Conns : ~Sends(b, "delete k1")
        /\ StoredBy(c, "k1", "v1")
        /\ StoredBy(d, "k2", None)
        /\ CommandOf(out[c][i]) = "list_keys"
        /\ StoredKeys(out[c][i].first) = Keys
        /\ out[c][i].env.data.count = Cardinality(Keys)
        /\ Len(out[c][i].env.data.keys) = Cardinality(Keys)

\* The error codes of the taxonomy.
Taxonomy ==
    {"INVALID_REQUEST", "UNKNOWN_COMMAND", "INVALID_JSON", "INVALID_INPUT",
     "INVALID_OPERATION", "MATH_ERROR", "KEY_NOT_FOUND", "INTERNAL_ERROR"}

\* C12: every error envelope written on a connection carries a code of the
\* taxonomy, and a success envelope carries no error.
C12_ErrorCodesInTaxonomy ==
    \A c \in Conns : \A i \in 1..Len(out[c]) :
        LET e == out[c][i]
        IN  IF e.env.success THEN Code(e) = Absent ELSE Code(e) \in Taxonomy

\* The value storage `d` holds for key k, Absent when it holds none.
ValueIn(d, k) ==
    IF \E i \in 1..Len(d) : d[i].k = k
    THEN d[CHOOSE i \in 1..Len(d) : d[i].k = k].v
    ELSE Absent

\* The frame the handler thread of c is about to work on, or is working on.
Upcoming(c) ==
    IF pc[c] = "resume" THEN cur[c].line
    ELSE IF pc[c] = "scan"
    THEN LET j == CHOOSE j \in 1..Len(buffer[c]) :
                     buffer[c][j] = NL /\ \A i \in 1..(j - 1) : buffer[c][i] # NL
         IN  Trim(SubSeq(buffer[c], 1, j - 1))
    ELSE <<>>

\* The step is one step of the handler thread of c on a store or a delete of
\* key k that succeeds: storage changes at k only, to the value stored or to
\* no entry, and the response (when the peer is there to take it) is a
\* success.
Mutates(c, k) ==
    LET line == Upcoming(c)
        message == json_loads(line).msg
    IN  /\ IsJson(line) /\ json_loads(line).kind = "object"
        /\ <<pc[c], buffer[c]>> # <<pc'[c], buffer'[c]>>
        /\ message.data.key = k
        /\ \/ /\ message.command = "store"
              /\ ValueIn(storage', k) = get(message.data.value)
           \/ /\ message.command = "delete"
              /\ ValueIn(storage, k) # Absent
              /\ ValueIn(storage', k) = Absent
        /\ \A k2 \in Keys \ {k} : ValueIn(storage', k2) = ValueIn(storage, k2)
        /\ \A i \in 1..Len(storage') :
              /\ storage'[i].k \in Keys
              /\ \A j \in 1..Len(storage') : storage'[i].k = storage'[j].k => i = j
        /\ ~peerClosed[c] =>
              /\ Len(out'[c]) = Len(out[c]) + 1
              /\ out'[c][Len(out'[c])].env.success
              /\ out'[c][Len(out'[c])].line = line

\* C13: every step that changes storage is a successful store or a successful
\* delete, and changes the entry of its key only: no failed command, no
\* reading command, no malformed frame, no connect, accept or close, and no
\* passing of time changes storage.
C13_StorageFrame ==
    [][storage' # storage => \E c \in Conns : \E k \in Keys : Mutates(c, k)]_vars

\* Storage holds what one connection stored, after that connection has closed
\* and its handler has ended, and after the other connection has had a
\* malformed frame and a failed command answered.
C13_Witness ==
    \E c \in Conns : \E d \in Conns \ {c} :
        /\ StoredBy(d, "k1", "v1")
        /\ peerClosed[d] /\ pc[d] = "done"
        /\ ValueIn(storage, "k1") = "v1"
        /\ Len(storage) = 1
        /\ \E i \in Answers(c) : Code(out[c][i]) = "INVALID_JSON"
        /\ \E i \in Answers(c) : Code(out[c][i]) = "INVALID_INPUT"

\* C14: the first frame written on a connection is the welcome: a success
\* envelope without request_id and without error whose data lists the
\* registry's command names.  It is written once, before any byte of the
\* connection is read, and a handler that reads or answers has written it; it
\* is missing only when the peer had closed before it could be written.
C14_WelcomeFirst ==
    \A c \in Conns :
        /\ Len(out[c]) > 0 =>
              /\ out[c][1].env.type = "response"
              /\ out[c][1].env.success
              /\ out[c][1].env.request_id = Absent
              /\ out[c][1].env.error = Absent
              /\ out[c][1].env.data.kind = "welcome"
              /\ out[c][1].env.data.keys = COMMAND_HANDLERS
        /\ \A i \in 2..Len(out[c]) : out[c][i].env.data.kind # "welcome"
        /\ pc[c] \in {"none", "welcome"} => (out[c] = <<>> /\ Consumed(c) = <<>>)
        /\ pc[c] \in {"recv", "scan", "resume"} => Len(out[c]) >= 1
        /\ (pc[c] = "done" /\ out[c] = <<>>) => (peerClosed[c] /\ Consumed(c) = <<>>)

\* The welcome is written while a request the client sent before the accept
\* waits unread, and another connection has the welcome and an answer.
C14_Witness ==
    \E c \in Conns : \E d \in Conns \ {c} :
        /\ Len(out[c]) = 1 /\ pc[c] = "recv"
        /\ sock[c] # <<>> /\ Consumed(c) = <<>>
        /\ Len(out[d]) = 2
        /\ out[d][1].env.data.kind = "welcome"

Pending(c) == \E i \in 1..Len(backlog) : backlog[i] = c

\* C15: whatever the handler thread of connection 2 does or fails to do, a
\* pending connection is accepted and its handler started, and every complete
\* frame connection 1 has sent is answered, unless its handler has ended.
C15_AcceptNeverWaits ==
    /\ \A c \in Conns : Pending(c) ~> (pc[c] # "none")
    /\ \A n \in 1..MaxSend :
          (Len(RefFrames(sent[1])) >= n) ~> (Len(out[1]) >= n + 1 \/ pc[1] = "done")

\* Connection 1 is pending, with a request sent, while the handler of
\* connection 2 is inside a command.
C15_Witness ==
    /\ Pending(1)
    /\ Len(RefFrames(sent[1])) >= 1
    /\ pc[2] = "resume"

\* A JSON value that is a number or a numeric string, and one that is zero.
IsNumeric(x) ==
    \/ x.j \in {"int", "bigint"}
    \/ x.j = "str" /\ x.s \in {"0", "1", "2", "3", "4", "5", "6", "7", "8", "9"}

IsZero(x) == (x.j = "int" /\ x.n = 0) \/ (x.j = "str" /\ x.s = "0")

OperationOf(e) == Request(e).msg.data.operation

\* C16: a calculate with operation divide or modulo, a numeric a and a zero b
\* (a number or a numeric string) is answered with MATH_ERROR and no data;
\* calculate(add, 2, 3) is answered with success and result 5.
C16_DivideByZeroIsMathError ==
    \A c \in Conns : \A i \in Answers(c) :
        LET e == out[c][i]
            d == Request(e).msg.data
        IN  (IsObject(e) /\ CommandOf(e) = "calculate") =>
              /\ (OperationOf(e) \in {"divide", "modulo"} /\ IsNumeric(d.a) /\ IsZero(d.b))
                    => (/\ ~e.env.success
                        /\ Code(e) = "MATH_ERROR"
                        /\ e.env.data = NoPayload)
              /\ (OperationOf(e) = "add" /\ d.a = JInt(2) /\ d.b = JInt(3))
                    => (/\ e.env.success
                        /\ e.env.data.kind = "calculate"
                        /\ e.env.data.result = [n |-> 5, d |-> 1])

\* A JSON value float() converts.
IsFloatable(x) == IsNumeric(x) /\ x.j # "bigint"

\* C19: a calculate with one of the six operations and operands that convert
\* to floats is answered with an error only when it divides or takes the
\* modulo by zero; every other one, a power with an undefined or overflowing
\* result included, is answered with success and a result.
C19_OnlyZeroDivisorRejected ==
    \A c \in Conns : \A i \in Answers(c) :
        LET e == out[c][i]
            d == Request(e).msg.data
        IN  (/\ IsObject(e) /\ CommandOf(e) = "calculate"
             /\ OperationOf(e) \in {"add", "subtract", "multiply", "divide", "power",
                                   "modulo"}
             /\ IsFloatable(d.a) /\ IsFloatable(d.b))
                => IF OperationOf(e) \in {"divide", "modulo"} /\ IsZero(d.b)
                   THEN ~e.env.success /\ Code(e) = "MATH_ERROR"
                   ELSE e.env.success /\ e.env.data.kind = "calculate"

\* C17: a frame that is the text of a JSON value other than an object is
\* answered with an error envelope of code INVALID_JSON.
C17_NonObjectIsInvalidJson ==
    \A c \in Conns : \A i \in Answers(c) :
        (IsJson(out[c][i].line) /\ ~IsObject(out[c][i]))
            => (~out[c][i].env.success /\ Code(out[c][i]) = "INVALID_JSON")

\* C18: no response answers a frame that is empty after trimming, and the
\* frames around an empty one are answered as if it were not there: every
\* answered frame is trimmed and not empty, and a handler waiting in recv has
\* answered exactly the non-empty frames it has received, in order.
C18_EmptyFramesSkipped ==
    \A c \in Conns :
        /\ \A i \in 2..Len(out[c]) :
              LET line == out[c][i].line
              IN  /\ line # <<>>
                  /\ line[1] # SP /\ line[Len(line)] # SP
                  /\ \A j \in 1..Len(line) : line[j] # NL
        /\ pc[c] = "recv" =>
              /\ Len(out[c]) >= 1
              /\ [i \in 1..(Len(out[c]) - 1) |-> out[c][i + 1].line]
                    = RefFrames(Consumed(c))

\* Two requests with an empty frame between them have been received, and
\* both are answered with success.
C18_Witness ==
    \E c \in Conns :
        /\ pc[c] = "recv" /\ sock[c] = <<>>
        /\ sent[c] = <<"list_keys", NL, NL, "list_keys", NL>>
        /\ Len(out[c]) = 3
        /\ out[c][2].env.success /\ out[c][3].env.success

\* A whitespace-only frame before a request has been received, and the
\* request alone is answered.
C18_WitnessBlank ==
    \E c \in Conns :
        /\ pc[c] = "recv" /\ sock[c] = <<>>
        /\ sent[c] = <<SP, NL, "list_keys", NL>>
        /\ Len(out[c]) = 2

\* The handler of c will do nothing more unless more bytes arrive.
Quiescent(c) == pc[c] = "done" \/ (pc[c] = "recv" /\ sock[c] = <<>>)

\* C20: what a handler has answered once it has nothing left to do depends on
\* the bytes sent only, not on the chunks they were read in: with the peer
\* still there, it is the answers to the frames of the whole stream.
C20_ChunkingIndependent ==
    \A c \in Conns :
        (Quiescent(c) /\ ~peerClosed[c]) =>
            /\ Len(out[c]) >= 1
            /\ [i \in 1..(Len(out[c]) - 1) |-> out[c][i + 1].line]
                  = RefFrames(sent[c])

\* C21: in every list_keys response, count is the length of the keys list.
C21_CountMatchesKeys ==
    \A c \in Conns : \A i \in Answers(c) :
        LET e == out[c][i]
        IN  (IsObject(e) /\ CommandOf(e) = "list_keys" /\ e.env.success)
                => e.env.data.count = Len(e.env.data.keys)

====
